---------------------------- MODULE Spec2Model ----------------------------
(***************************************************************************)
(* A model of gdb-plug (src/gdb-plug.py): the configuration resolver       *)
(* PlugInitConfig, the plugin registry PlugManager, the singleton Plug and *)
(* the gdb command PlugCommand.                                            *)
(*                                                                         *)
(* Python values are tagged records (PyNone, PyBool, PyInt, PyStr, PyList) *)
(* so that None, False, 0 and "" stay different values, as they are in     *)
(* Python.  A Python str is a sequence of one-character strings, so that   *)
(* split, lower, rstrip, endswith, format and os.path.join are computed    *)
(* character by character, as the interpreter computes them.               *)
(***************************************************************************)
EXTENDS Integers, Sequences, FiniteSets, TLC

VARIABLES
  environ,     \* os.environ: GDB_PLUG_HOME and GDB_PLUG_AUTOLOAD
  kargs,       \* the keyword arguments PlugManager was constructed with
  init,        \* PlugManager.init, the PlugInitConfig
  plug_infos,  \* PlugManager.plug_infos, a dict in insertion order
  fs,          \* the paths that exist in the filesystem
  decls,       \* history: the declarations registered so far, in call order
  last,        \* what the last call did: its arguments, calls out, result
  log          \* history: the calls the caller kept a record of, in order

vars == <<environ, kargs, init, plug_infos, fs, decls, last, log>>

---------------------------------------------------------------------------
(* Python values *)

PyNone == [t |-> "none"]
PyBool(b) == [t |-> "bool", b |-> b]
PyInt(i) == [t |-> "int", i |-> i]
PyStr(s) == [t |-> "str", s |-> s]
PyList(l) == [t |-> "list", l |-> l]

\* bool(v), the truth value `or`, `if` and `not` test
Truthy(v) ==
  CASE v.t = "none" -> FALSE
    [] v.t = "bool" -> v.b
    [] v.t = "int"  -> v.i # 0
    [] v.t = "str"  -> v.s # <<>>
    [] v.t = "list" -> v.l # <<>>

\* a or b
PyOr(a, b) == IF Truthy(a) THEN a ELSE b

UpperCase == <<"A","B","C","D","E","F","G","H","I","J","K","L","M",
               "N","O","P","Q","R","S","T","U","V","W","X","Y","Z">>
LowerCase == <<"a","b","c","d","e","f","g","h","i","j","k","l","m",
               "n","o","p","q","r","s","t","u","v","w","x","y","z">>

IsUpper(c) == \E i \in DOMAIN UpperCase : UpperCase[i] = c
IsLetter(c) == IsUpper(c) \/ \E i \in DOMAIN LowerCase : LowerCase[i] = c

LowerChar(c) ==
  IF IsUpper(c)
  THEN LowerCase[CHOOSE i \in DOMAIN UpperCase : UpperCase[i] = c]
  ELSE c

\* str.lower()
lower(s) == [i \in 1..Len(s) |-> LowerChar(s[i])]

\* c in s, for a one-character c
contains(s, c) == \E i \in 1..Len(s) : s[i] = c

\* x in l, for a list l
InList(x, l) == \E i \in 1..Len(l) : l[i] = x

\* s.endswith(suf)
endswith(s, suf) ==
  /\ Len(suf) <= Len(s)
  /\ SubSeq(s, Len(s) - Len(suf) + 1, Len(s)) = suf

\* s.startswith(pre)
startswith(s, pre) ==
  /\ Len(pre) <= Len(s)
  /\ SubSeq(s, 1, Len(pre)) = pre

\* s.rstrip(c): every trailing c removed
RECURSIVE rstrip(_, _)
rstrip(s, c) ==
  IF s # <<>> /\ s[Len(s)] = c THEN rstrip(SubSeq(s, 1, Len(s) - 1), c) ELSE s

\* s.split(c): the pieces between the occurrences of c, at least one piece
RECURSIVE split(_, _)
split(s, c) ==
  IF ~contains(s, c) THEN <<s>>
  ELSE LET k == CHOOSE i \in 1..Len(s) :
                   s[i] = c /\ \A j \in 1..(i - 1) : s[j] # c
       IN <<SubSeq(s, 1, k - 1)>> \o split(SubSeq(s, k + 1, Len(s)), c)

\* template.format(arg) for a template with one "{}" field
RECURSIVE str_format(_, _)
str_format(template, arg) ==
  IF Len(template) < 2 THEN template
  ELSE IF template[1] = "{" /\ template[2] = "}"
       THEN arg \o SubSeq(template, 3, Len(template))
       ELSE <<template[1]>> \o str_format(Tail(template), arg)

\* os.path.join(a, b) of posixpath
os_path_join(a, b) ==
  IF startswith(b, <<"/">>) THEN b
  ELSE IF a = <<>> \/ a[Len(a)] = "/" THEN a \o b
  ELSE a \o <<"/">> \o b

---------------------------------------------------------------------------
(* PlugInitConfig *)

\* first_not_none(*args): the first argument that is not None, else None
RECURSIVE first_not_none(_)
first_not_none(args) ==
  IF args = <<>> THEN PyNone
  ELSE IF Head(args) # PyNone THEN Head(args)
  ELSE first_not_none(Tail(args))

\* the home directory of the user, what os.path.expanduser puts for "~"
UserHome == <<"/","u">>

\* os.path.expanduser(p)
expanduser(p) ==
  IF p = <<"~">> \/ startswith(p, <<"~", "/">>) THEN UserHome \o Tail(p) ELSE p

DefaultHome == <<"~","/",".","c","o","n","f","i","g","/","g","d","b","/","p","l","u","g">>
DefaultUriFormat == <<"h","t","t","p","s",":","/","/","g","i","t",":",":","@","g","i","t","h","u","b",".","c","o","m","/","{","}",".","g","i","t">>

\* PlugInitConfig.__init__ had it put the constructor argument before the
\* environment variable
PlugInitConfig_ArgFirst(env, ka) ==
  [ home       |-> first_not_none(<<ka.home, env.GDB_PLUG_HOME,
                                    PyStr(expanduser(DefaultHome))>>),
    autoload   |-> first_not_none(<<ka.autoload, env.GDB_PLUG_AUTOLOAD,
                                    PyBool(TRUE)>>),
    uri_format |-> first_not_none(<<ka.uri_format, PyStr(DefaultUriFormat)>>) ]

\* PlugInitConfig.__init__(home, autoload, uri_format), reading os.environ
PlugInitConfig(env, ka) ==
  [ home       |-> first_not_none(<<env.GDB_PLUG_HOME, ka.home,
                                    PyStr(expanduser(DefaultHome))>>),
    autoload   |-> first_not_none(<<env.GDB_PLUG_AUTOLOAD, ka.autoload,
                                    PyBool(TRUE)>>),
    uri_format |-> first_not_none(<<ka.uri_format, PyStr(DefaultUriFormat)>>) ]

\* is_local_plug had its pattern been r'^[A-Z]:|^[%~/]'
is_local_plug_UpperDrive(repo) ==
  \/ Len(repo) >= 2 /\ IsUpper(repo[1]) /\ repo[2] = ":"
  \/ Len(repo) >= 1 /\ repo[1] \in {"%", "~", "/"}

\* re.match(r'^[a-zA-Z]:|^[%~/]', repo)
is_local_plug(repo) ==
  \/ Len(repo) >= 2 /\ IsLetter(repo[1]) /\ repo[2] = ":"
  \/ Len(repo) >= 1 /\ repo[1] \in {"%", "~", "/"}

\* infer_name had it removed every trailing ".git"
RECURSIVE strip_git_All(_)
strip_git_All(bn) ==
  IF endswith(bn, <<".", "g", "i", "t">>)
  THEN strip_git_All(SubSeq(bn, 1, Len(bn) - 4))
  ELSE bn

infer_name_StripAll(repo) ==
  LET parts == split(repo, "/") IN strip_git_All(parts[Len(parts)])

\* infer_name(repo): the basename, without one trailing ".git"
infer_name(repo) ==
  LET parts == split(repo, "/")
      bn    == parts[Len(parts)]
  IN IF endswith(bn, <<".", "g", "i", "t">>)
     THEN SubSeq(bn, 1, Len(bn) - 4)
     ELSE bn

\* infer_directory_uri had it taken a bare name for a repository of the
\* template instead of raising
infer_directory_uri_NoRaise(cfg, name, repo) ==
  IF is_local_plug(repo)
  THEN [raised |-> FALSE, uri |-> PyNone, directory |-> rstrip(repo, "/")]
  ELSE IF contains(repo, ":")
  THEN [raised |-> FALSE, uri |-> PyStr(repo),
        directory |-> os_path_join(cfg.home.s, name)]
  ELSE [raised |-> FALSE, uri |-> PyStr(str_format(cfg.uri_format.s, repo)),
        directory |-> os_path_join(cfg.home.s, name)]

\* infer_directory_uri had it looked for the "/" of owner/name before the ":"
\* of a full uri
infer_directory_uri_SlashFirst(cfg, name, repo) ==
  IF is_local_plug(repo)
  THEN [raised |-> FALSE, uri |-> PyNone, directory |-> rstrip(repo, "/")]
  ELSE IF contains(repo, "/")
  THEN [raised |-> FALSE, uri |-> PyStr(str_format(cfg.uri_format.s, repo)),
        directory |-> os_path_join(cfg.home.s, name)]
  ELSE IF ~contains(repo, ":")
  THEN [raised |-> TRUE, uri |-> PyNone, directory |-> <<>>]
  ELSE [raised |-> FALSE, uri |-> PyStr(repo),
        directory |-> os_path_join(cfg.home.s, name)]

\* infer_directory_uri(name, repo); raised: the ValueError of line 62
infer_directory_uri(cfg, name, repo) ==
  IF is_local_plug(repo)
  THEN [raised |-> FALSE, uri |-> PyNone, directory |-> rstrip(repo, "/")]
  ELSE IF contains(repo, ":")
  THEN [raised |-> FALSE, uri |-> PyStr(repo),
        directory |-> os_path_join(cfg.home.s, name)]
  ELSE IF ~contains(repo, "/")
  THEN [raised |-> TRUE, uri |-> PyNone, directory |-> <<>>]
  ELSE [raised |-> FALSE, uri |-> PyStr(str_format(cfg.uri_format.s, repo)),
        directory |-> os_path_join(cfg.home.s, name)]

TrueWords == <<<<"a","l","l">>,<<"t","r","u","e">>,<<"1">>>>
FalseWords == <<<<"n","o","n","e">>,<<"f","a","l","s","e">>,<<"0">>>>

\* the for loop of infer_bool_bygroup had it left the loop at the first token
\* it recognizes
RECURSIVE bygroup_loop_FirstWins(_, _, _)
bygroup_loop_FirstWins(tokens, groups, ret) ==
  IF tokens = <<>> THEN ret
  ELSE LET x == lower(Head(tokens))
       IN IF InList(x, FalseWords \o
                         [i \in 1..Len(groups) |-> <<"-">> \o groups[i]])
          THEN FALSE
          ELSE IF InList(x, TrueWords \o groups) THEN TRUE
          ELSE bygroup_loop_FirstWins(Tail(tokens), groups, ret)

\* the for loop of infer_bool_bygroup over the tokens, ret the running value
RECURSIVE bygroup_loop(_, _, _)
bygroup_loop(tokens, groups, ret) ==
  IF tokens = <<>> THEN ret
  ELSE LET x  == lower(Head(tokens))
           r1 == IF InList(x, TrueWords \o groups) THEN TRUE ELSE ret
           r2 == IF InList(x, FalseWords \o
                                [i \in 1..Len(groups) |-> <<"-">> \o groups[i]])
                 THEN FALSE ELSE r1
       IN bygroup_loop(Tail(tokens), groups, r2)

\* infer_bool_bygroup(value, groups)
infer_bool_bygroup(value, groups) ==
  CASE value.t = "bool" -> value.b
    [] value.t = "int"  -> value.i # 0
    [] value.t = "str"  -> bygroup_loop(split(value.s, ","), groups, FALSE)
    [] OTHER            -> FALSE

\* infer_kv(key, value)
infer_kv(cfg, key, value) == IF value # PyNone THEN value ELSE cfg[key]

\* the raw value infer_config hands to infer_bool_bygroup (line 96)
autoload_raw(cfg, autoload) == PyOr(autoload, cfg.autoload)

\* infer_config(repo, name, autoload, groups); raised: ValueError
infer_config(cfg, d) ==
  LET groups == PyOr(d.groups, PyList(<<>>)).l
      name   == PyOr(d.name, PyStr(infer_name(d.repo))).s
      seg    == infer_directory_uri(cfg, name, d.repo)
  IN [ raised |-> seg.raised,
       config |-> [ name      |-> name,
                    repo      |-> d.repo,
                    autoload  |-> infer_bool_bygroup(
                                    autoload_raw(cfg, d.autoload),
                                    <<name>> \o groups),
                    uri       |-> seg.uri,
                    directory |-> seg.directory ] ]

---------------------------------------------------------------------------
(* The filesystem and the dict *)

\* a path as the kernel resolves it: "//" is "/", a trailing "/" is dropped
RECURSIVE normpath(_)
normpath(p) ==
  IF Len(p) <= 1 THEN p
  ELSE IF p[1] = "/" /\ p[2] = "/" THEN normpath(Tail(p))
  ELSE IF Len(p) = 2 /\ p[2] = "/" THEN <<p[1]>>
  ELSE <<p[1]>> \o normpath(Tail(p))

\* os.path.exists(p) in the filesystem f
os_path_exists(f, p) == p # <<>> /\ (normpath(p) = <<"/">> \/ normpath(p) \in f)

\* os.makedirs(p, exist_ok=True)
os_makedirs(f, p) == IF p = <<>> THEN f ELSE f \cup {normpath(p)}

\* k in d
dict_has(d, k) == \E i \in 1..Len(d) : d[i].key = k

\* d[k], for a key of d
dict_get(d, k) == d[CHOOSE i \in 1..Len(d) : d[i].key = k].value

\* d[k] = v had it been d.setdefault(k, v): a key of d keeps its value
dict_set_KeepOld(d, k, v) ==
  IF dict_has(d, k) THEN d ELSE Append(d, [key |-> k, value |-> v])

\* d[k] = v had it been del d[k] first: the key goes last
dict_set_MoveToEnd(d, k, v) ==
  Append(SelectSeq(d, LAMBDA e : e.key # k), [key |-> k, value |-> v])

\* d[k] = v: a key of d keeps its place, a new key goes last
dict_set(d, k, v) ==
  IF dict_has(d, k)
  THEN [i \in 1..Len(d) |-> IF d[i].key = k THEN [key |-> k, value |-> v]
                                             ELSE d[i]]
  ELSE Append(d, [key |-> k, value |-> v])

\* list(d.keys())
dict_keys(d) == [i \in 1..Len(d) |-> d[i].key]

---------------------------------------------------------------------------
(* PlugManager *)

\* the most register calls a behaviour makes
MaxRegs == 3

\* PlugManager.plug(repo, **kargs): the registry after the call
plug(cfg, infos, d) ==
  LET r == infer_config(cfg, d)
  IN IF r.raised THEN infos ELSE dict_set(infos, r.config.name, r.config)

\* names or list(self.plug_infos.keys())  (line 120)
\* and what `for name in names` walks: the items of a list, the characters of
\* a str
update_names(infos, names) ==
  IF ~Truthy(names) THEN dict_keys(infos)
  ELSE IF names.t = "str" THEN [i \in 1..Len(names.s) |-> <<names.s[i]>>]
  ELSE names.l

\* what one git call of update does to the filesystem: a clone that succeeds
\* creates the directory with the files the remote repository holds
git_effect(f, ev, dir, o) ==
  IF ev = "clone" /\ o.ok
  THEN f \cup {normpath(dir)} \cup {normpath(os_path_join(dir, x)) : x \in o.files}
  ELSE f

\* one turn of the for loop of update had line 133 been a continue
update_step_SkipLocal(infos, name, i, f, o) ==
  LET none == [idx |-> i, name |-> name, ev |-> "not_registered",
               ok |-> FALSE, uri |-> <<>>, dir |-> <<>>]
  IN IF ~dict_has(infos, name)
     THEN [stop |-> FALSE, fs |-> f, entry |-> none]
     ELSE
       LET plugin == dict_get(infos, name)
           ev     == IF os_path_exists(f, plugin.directory)
                     THEN "pull" ELSE "clone"
       IN IF plugin.uri = PyNone
          THEN [stop |-> FALSE, fs |-> f,
                entry |-> [none EXCEPT !.ev = "not_remote"]]
          ELSE [stop |-> FALSE,
                fs |-> git_effect(f, ev, plugin.directory, o),
                entry |-> [idx |-> i, name |-> name, ev |-> ev,
                           ok |-> o.ok, uri |-> plugin.uri.s,
                           dir |-> plugin.directory]]

\* one turn of the for loop of update, for names[i] = name with o the outcome
\* of its git call; stop: the return of line 133
update_step(infos, name, i, f, o) ==
  LET none == [idx |-> i, name |-> name, ev |-> "not_registered",
               ok |-> FALSE, uri |-> <<>>, dir |-> <<>>]
  IN IF ~dict_has(infos, name)
     THEN [stop |-> FALSE, fs |-> f, entry |-> none]
     ELSE
       LET plugin == dict_get(infos, name)
           ev     == IF os_path_exists(f, plugin.directory)
                     THEN "pull" ELSE "clone"
       IN IF plugin.uri = PyNone
          THEN [stop |-> TRUE, fs |-> f,
                entry |-> [none EXCEPT !.ev = "not_remote"]]
          ELSE [stop |-> FALSE,
                fs |-> git_effect(f, ev, plugin.directory, o),
                entry |-> [idx |-> i, name |-> name, ev |-> ev,
                           ok |-> o.ok, uri |-> plugin.uri.s,
                           dir |-> plugin.directory]]

\* the for loop of update from names[i] on; oc[i] is the outcome of the git
\* call made for names[i], should one be made
RECURSIVE update_loop(_, _, _, _, _, _)
update_loop(infos, names, i, f, oc, trace) ==
  IF i > Len(names) THEN [fs |-> f, trace |-> trace]
  ELSE LET s == update_step(infos, names[i], i, f, oc[i])
       IN IF s.stop
          THEN [fs |-> s.fs, trace |-> Append(trace, s.entry)]
          ELSE update_loop(infos, names, i + 1, s.fs, oc,
                           Append(trace, s.entry))

\* PlugManager.update(names)
update(infos, names, f, oc) ==
  update_loop(infos, update_names(infos, names), 1, f, oc, <<>>)

\* init_files of load (lines 186-193)
init_files(plugin_dir, name) ==
  << os_path_join(plugin_dir, name \o <<".","p","y">>),
     os_path_join(plugin_dir, name \o <<".","g","d","b">>),
     os_path_join(plugin_dir, <<"m","a","i","n",".","p","y">>),
     os_path_join(plugin_dir, <<"m","a","i","n",".","g","d","b">>),
     os_path_join(plugin_dir, <<".","g","d","b","i","n","i","t">>),
     os_path_join(plugin_dir, <<"g","d","b","i","n","i","t","-">> \o lower(name) \o <<".","p","y">>) >>

\* one turn of the for loop of load had loaded been set, and the loop left,
\* whether or not gdb.execute raises
load_step_StopOnRaise(path, f, bad) ==
  IF ~os_path_exists(f, path) THEN [stop |-> FALSE, sourced |-> <<>>]
  ELSE [stop |-> TRUE, sourced |-> <<[path |-> path, ok |-> path \notin bad]>>]

\* one turn of the for loop of load, for init_file = path; gdb.execute
\* raises for the paths of bad; stop: the break of line 202
load_step(path, f, bad) ==
  IF ~os_path_exists(f, path) THEN [stop |-> FALSE, sourced |-> <<>>]
  ELSE IF path \in bad
  THEN [stop |-> FALSE, sourced |-> <<[path |-> path, ok |-> FALSE]>>]
  ELSE [stop |-> TRUE, sourced |-> <<[path |-> path, ok |-> TRUE]>>]

\* the for loop of load from files[k] on; ret is the loaded flag
RECURSIVE load_loop(_, _, _, _, _)
load_loop(files, k, f, bad, sourced) ==
  IF k > Len(files) THEN [ret |-> FALSE, sourced |-> sourced]
  ELSE LET s == load_step(files[k], f, bad)
       IN IF s.stop
          THEN [ret |-> TRUE, sourced |-> sourced \o s.sourced]
          ELSE load_loop(files, k + 1, f, bad, sourced \o s.sourced)

\* PlugManager.load(name)
load(infos, name, f, bad) ==
  IF ~dict_has(infos, name)
  THEN [ret |-> FALSE, sourced |-> <<>>, report |-> "not_registered"]
  ELSE LET plugin == dict_get(infos, name)
       IN IF ~os_path_exists(f, plugin.directory)
          THEN [ret |-> FALSE, sourced |-> <<>>, report |-> "not_installed"]
          ELSE LET r == load_loop(init_files(plugin.directory, name), 1, f,
                                  bad, <<>>)
               IN [ret |-> r.ret, sourced |-> r.sourced,
                   report |-> IF r.ret THEN "loaded" ELSE "no_init_file"]

\* names_to_load of end (lines 161-166)
RECURSIVE names_to_load(_)
names_to_load(infos) ==
  IF infos = <<>> THEN <<>>
  ELSE (IF Head(infos).value.autoload THEN <<Head(infos).key>> ELSE <<>>)
       \o names_to_load(Tail(infos))

\* PlugManager.end(): the load calls it makes, in order, each with its result
end(infos, f, bad) ==
  LET names == names_to_load(infos)
  IN [i \in 1..Len(names) |->
        [name |-> names[i], result |-> load(infos, names[i], f, bad)]]

\* list() had it reported installed for the plugins git manages only
list_RemoteOnly(infos, f) ==
  [i \in 1..Len(infos) |->
     [ name      |-> infos[i].key,
       repo      |-> infos[i].value.repo,
       directory |-> infos[i].value.directory,
       autoload  |-> infos[i].value.autoload,
       installed |-> /\ infos[i].value.uri # PyNone
                     /\ os_path_exists(f, infos[i].value.directory) ]]

\* PlugManager.list()
list(infos, f) ==
  [i \in 1..Len(infos) |->
     [ name      |-> infos[i].key,
       repo      |-> infos[i].value.repo,
       directory |-> infos[i].value.directory,
       autoload  |-> infos[i].value.autoload,
       installed |-> os_path_exists(f, infos[i].value.directory) ]]

---------------------------------------------------------------------------
(* The manager as a state machine: one action per method of PlugManager *)

\* the state PlugManager.__init__ leaves, for os.environ = env, **kargs = ka
\* and a filesystem that held the paths f0
Constructed(env, ka, f0) ==
  /\ environ = env
  /\ kargs = ka
  /\ init = PlugInitConfig(env, ka)
  /\ plug_infos = <<>>
  /\ fs = os_makedirs(f0, PlugInitConfig(env, ka).home.s)
  /\ decls = <<>>
  /\ log = <<>>
  /\ last = [op |-> "init"]

\* gdb is at its prompt or runs its configuration script: no call is under way
Idle == last.op \in {"init", "idle"}

\* plug(repo, name, autoload, groups)
DoPlug(d) ==
  /\ Idle
  /\ Len(decls) < MaxRegs
  /\ LET raised == infer_config(init, d).raised
     IN /\ decls' = IF raised THEN decls ELSE Append(decls, d)
        /\ last' = [op |-> "plug", decl |-> d, before |-> plug_infos,
                    raised |-> raised]
  /\ plug_infos' = plug(init, plug_infos, d)
  /\ UNCHANGED <<environ, kargs, init, fs, log>>

\* the places of names whose plugin update would run git for
git_indices(infos, names) ==
  {i \in 1..Len(names) :
     dict_has(infos, names[i]) /\ dict_get(infos, names[i]).uri # PyNone}

\* what a remote repository may hold
RepoFiles == { {}, {<<"m","a","i","n",".","p","y">>} }

\* update(names) had it switched autoload on in the record of each plugin it
\* cloned
DoUpdate_WritesRecord(names) ==
  /\ Idle
  /\ \E failing \in SUBSET git_indices(plug_infos,
                                       update_names(plug_infos, names)),
        files \in RepoFiles :
       LET batch == update_names(plug_infos, names)
           oc == [i \in 1..Len(batch) |->
                    [ok |-> i \notin failing, files |-> files]]
           r  == update(plug_infos, names, fs, oc)
           cloned == {r.trace[k].name : k \in {j \in 1..Len(r.trace) :
                        r.trace[j].ev = "clone" /\ r.trace[j].ok}}
       IN /\ fs' = r.fs
          /\ plug_infos' =
               [i \in 1..Len(plug_infos) |->
                  IF plug_infos[i].key \in cloned
                  THEN [plug_infos[i] EXCEPT !.value.autoload = TRUE]
                  ELSE plug_infos[i]]
          /\ last' = [op |-> "update", names |-> names, before |-> fs,
                      trace |-> r.trace, raised |-> FALSE]
  /\ UNCHANGED <<environ, kargs, init, decls, log>>

\* update(names): the git calls at the places of failing fail, and the
\* remote repositories hold files
DoUpdate(names) ==
  /\ Idle
  /\ \E failing \in SUBSET git_indices(plug_infos,
                                       update_names(plug_infos, names)),
        files \in RepoFiles :
       LET batch == update_names(plug_infos, names)
           oc == [i \in 1..Len(batch) |->
                    [ok |-> i \notin failing, files |-> files]]
           r  == update(plug_infos, names, fs, oc)
       IN /\ fs' = r.fs
          /\ last' = [op |-> "update", names |-> names, before |-> fs,
                      trace |-> r.trace, raised |-> FALSE]
  /\ UNCHANGED <<environ, kargs, init, plug_infos, decls, log>>

\* the initialization files that exist for the plugins of names
RECURSIVE existing_init_files(_, _, _)
existing_init_files(infos, names, f) ==
  IF names = <<>> THEN {}
  ELSE (IF dict_has(infos, Head(names))
        THEN LET fl == init_files(dict_get(infos, Head(names)).directory,
                                  Head(names))
             IN {fl[k] : k \in {j \in 1..Len(fl) : os_path_exists(f, fl[j])}}
        ELSE {})
       \cup existing_init_files(infos, Tail(names), f)

\* load(name), gdb raising on the files of bad
DoLoad(name) ==
  /\ Idle
  /\ \E bad \in SUBSET existing_init_files(plug_infos, <<name>>, fs) :
       last' = [op |-> "load", name |-> name, bad |-> bad,
                result |-> load(plug_infos, name, fs, bad)]
  /\ UNCHANGED <<environ, kargs, init, plug_infos, fs, decls, log>>

\* end(), gdb raising on the files of bad
DoEnd ==
  /\ Idle
  /\ \E bad \in SUBSET existing_init_files(plug_infos,
                                           names_to_load(plug_infos), fs) :
       last' = [op |-> "end", bad |-> bad,
                loads |-> end(plug_infos, fs, bad)]
  /\ UNCHANGED <<environ, kargs, init, plug_infos, fs, decls, log>>

\* list()
DoList ==
  /\ Idle
  /\ last' = [op |-> "list", ret |-> list(plug_infos, fs)]
  /\ UNCHANGED <<environ, kargs, init, plug_infos, fs, decls, log>>

\* the call has returned and gdb takes the next command
Return ==
  /\ ~Idle
  /\ last' = [op |-> "idle"]
  /\ UNCHANGED <<environ, kargs, init, plug_infos, fs, decls, log>>

---------------------------------------------------------------------------
(* Spec: a session of register, sync, load, loadAll and list calls *)

NoEnv == [GDB_PLUG_HOME |-> PyNone, GDB_PLUG_AUTOLOAD |-> PyNone]
NoKargs == [home |-> PyNone, autoload |-> PyNone, uri_format |-> PyNone]

\* the environments and constructor arguments of Spec
Environs ==
  { NoEnv,
    [GDB_PLUG_HOME |-> PyStr(<<"/","e">>), GDB_PLUG_AUTOLOAD |-> PyStr(<<"a","l","l",",","-","t">>)] }
Kargs == { [NoKargs EXCEPT !.home = PyStr(<<"/","h">>)] }

\* the filesystems a session may start in, for plugins kept under home
InitialFs(home) ==
  { {},
    { home \o <<"/","t">>, home \o <<"/","t","/","t",".","p","y">>, home \o <<"/","t","/","m","a","i","n",".","p","y">>,
      home \o <<"/","t","/",".","g","d","b","i","n","i","t">>,
      <<"/","m">>, <<"/","m","/","t",".","g","d","b">>, <<"/","m","/","g","d","b","i","n","i","t","-","t",".","p","y">> } }

\* the declarations Spec registers: two remote plugins, a local one that
\* takes the name of the first, and an invalid one
Decls ==
  { [repo |-> <<"o","/","t">>, name |-> PyNone, autoload |-> PyNone, groups |-> PyNone],
    [repo |-> <<"o","/","U">>, name |-> PyNone, autoload |-> PyNone, groups |-> PyNone],
    [repo |-> <<"/","m","/">>, name |-> PyStr(<<"t">>), autoload |-> PyStr(<<"n","o","n","e">>), groups |-> PyList(<<<<"g">>>>)],
    [repo |-> <<"b","a","d">>, name |-> PyNone, autoload |-> PyNone, groups |-> PyNone] }

\* the names the calls of Spec name: registered ones and one that never is
OpNames == { <<"t">>, <<"U">>, <<"q">> }

\* the batches update is called with
Batches ==
  { PyNone, PyList(<<>>) }
  \cup { PyList(b) : b \in { <<<<"q">>, <<"t">>>>,
                             <<<<"t">>, <<"t">>>>,
                             <<<<"t">>, <<"q">>, <<"U">>>>,
                             <<<<"U">>, <<"t">>, <<"U">>>>,
                             <<<<"q">>, <<"t">>, <<"U">>>> } }

Init ==
  \E env \in Environs, ka \in Kargs :
    \E f0 \in InitialFs(PlugInitConfig(env, ka).home.s) :
      Constructed(env, ka, f0)

Next ==
  \/ \E d \in Decls : DoPlug(d)
  \/ \E names \in Batches : DoUpdate(names)
  \/ \E name \in OpNames : DoLoad(name)
  \/ DoEnd
  \/ DoList
  \/ Return

Spec == Init /\ [][Next]_vars

---------------------------------------------------------------------------
(* SpecList: register, sync and list calls of a caller that keeps what the *)
(* calls returned                                                          *)

\* the most calls a behaviour of SpecList makes
MaxListCalls == 4

\* the call has returned and the caller files what it did
ReturnLogged ==
  /\ ~Idle
  /\ log' = Append(log, last)
  /\ last' = [op |-> "idle"]
  /\ UNCHANGED <<environ, kargs, init, plug_infos, fs, decls>>

ListBatches == { PyNone, PyList(<<<<"t">>>>) }

\* the caller makes another call
MoreListCalls == Len(log) < MaxListCalls

NextList ==
  \/ \E d \in Decls : MoreListCalls /\ DoPlug(d)
  \/ \E names \in ListBatches : MoreListCalls /\ DoUpdate(names)
  \/ MoreListCalls /\ DoList
  \/ ReturnLogged

SpecList == Init /\ [][NextList]_vars

---------------------------------------------------------------------------
(* The singleton Plug and the gdb command PlugCommand.  In SpecPlug the    *)
(* variables kargs, init and plug_infos are those of Plug._instance's      *)
(* _manager, and init is None as long as Plug._instance is.                *)

\* Plug._instance is None
NoInstance == init = PyNone

\* Plug._instance._manager and the filesystem
Manager ==
  [kargs |-> kargs, init |-> init, plug_infos |-> plug_infos, fs |-> fs]

\* PlugManager(**ka) made in the environment env and the filesystem f
NewPlugManager(env, ka, f) ==
  [ kargs      |-> ka,
    init       |-> PlugInitConfig(env, ka),
    plug_infos |-> <<>>,
    fs         |-> os_makedirs(f, PlugInitConfig(env, ka).home.s) ]

\* Plug.__new__, which every cls() runs: the manager after it
Plug_new ==
  IF NoInstance THEN NewPlugManager(environ, NoKargs, fs) ELSE Manager

\* Plug.begin had it made a new manager at every call
Plug_begin_Always(ka) == NewPlugManager(environ, ka, Plug_new.fs)

\* Plug.begin(**ka): the manager after it
Plug_begin(ka) ==
  IF NoInstance THEN NewPlugManager(environ, ka, Plug_new.fs) ELSE Manager

\* Plug.update(*args) on the manager m, the git calls at the places of
\* failing failing; raised: the TypeError of a call with too many arguments
Plug_update(m, args, failing, files) ==
  IF Len(args) > 1
  THEN [raised |-> TRUE, m |-> m, args |-> args, batch |-> <<>>,
        trace |-> <<>>]
  ELSE LET names == IF args = <<>> THEN PyNone ELSE args[1]
           batch == update_names(m.plug_infos, names)
           oc    == [i \in 1..Len(batch) |->
                       [ok |-> i \notin failing, files |-> files]]
           r     == update(m.plug_infos, names, m.fs, oc)
       IN [raised |-> FALSE, m |-> [m EXCEPT !.fs = r.fs], args |-> args,
           batch |-> batch, trace |-> r.trace]

\* the places of the batch of Plug.update(*args) that git may be run for
Plug_update_indices(m, args) ==
  IF Len(args) > 1 THEN {}
  ELSE git_indices(m.plug_infos,
                   update_names(m.plug_infos,
                                IF args = <<>> THEN PyNone ELSE args[1]))

\* Plug.load(*args); raised: the TypeError of a call without, or with more
\* than, one argument
Plug_load(m, args, bad) ==
  IF Len(args) # 1
  THEN [raised |-> TRUE, args |-> args, result |-> PyNone]
  ELSE [raised |-> FALSE, args |-> args,
        result |-> load(m.plug_infos, args[1].s, m.fs, bad)]

\* the initialization files Plug.load(*args) may source
Plug_load_files(m, args) ==
  IF Len(args) # 1 THEN {}
  ELSE existing_init_files(m.plug_infos, <<args[1].s>>, m.fs)

\* Plug.list(*args); raised: the TypeError of a call with arguments
Plug_list(m, args) ==
  IF args # <<>>
  THEN [raised |-> TRUE, args |-> args, ret |-> <<>>]
  ELSE [raised |-> FALSE, args |-> args, ret |-> list(m.plug_infos, m.fs)]

\* gdb.string_to_argv(arg), for an arg without quotes and backslashes
string_to_argv(arg) == SelectSeq(split(arg, " "), LAMBDA w : w # <<>>)

\* the manager of the next state is m
Becomes(m) ==
  /\ kargs' = m.kargs
  /\ init' = m.init
  /\ plug_infos' = m.plug_infos
  /\ fs' = m.fs

\* Plug.begin(**ka)
PlugBegin(ka) ==
  /\ Idle
  /\ Becomes(Plug_begin(ka))
  /\ last' = [op |-> "begin", ka |-> ka, was |-> Manager]
  /\ UNCHANGED <<environ, decls, log>>

\* Plug.plug(repo, name, autoload, groups)
PlugPlug(d) ==
  /\ Idle
  /\ Len(decls) < MaxRegs
  /\ LET m      == Plug_new
         raised == infer_config(m.init, d).raised
     IN /\ Becomes([m EXCEPT !.plug_infos = plug(m.init, m.plug_infos, d)])
        /\ decls' = IF raised THEN decls ELSE Append(decls, d)
        /\ last' = [op |-> "plug", decl |-> d, was |-> Manager,
                    before |-> m.plug_infos, raised |-> raised]
  /\ UNCHANGED <<environ, log>>

\* Plug.update(*args)
PlugUpdate(args) ==
  /\ Idle
  /\ \E failing \in SUBSET Plug_update_indices(Plug_new, args),
        files \in RepoFiles :
       LET c == Plug_update(Plug_new, args, failing, files)
       IN /\ Becomes(c.m)
          /\ last' = [op |-> "update", args |-> args, was |-> Manager,
                      raised |-> c.raised, batch |-> c.batch,
                      trace |-> c.trace]
  /\ UNCHANGED <<environ, decls, log>>

\* Plug.load(*args)
PlugLoad(args) ==
  /\ Idle
  /\ \E bad \in SUBSET Plug_load_files(Plug_new, args) :
       LET c == Plug_load(Plug_new, args, bad)
       IN last' = [op |-> "load", args |-> args, was |-> Manager,
                   raised |-> c.raised, result |-> c.result]
  /\ Becomes(Plug_new)
  /\ UNCHANGED <<environ, decls, log>>

\* Plug.list()
PlugList ==
  /\ Idle
  /\ last' = [op |-> "list", was |-> Manager, raised |-> FALSE,
              ret |-> Plug_list(Plug_new, <<>>).ret]
  /\ Becomes(Plug_new)
  /\ UNCHANGED <<environ, decls, log>>

\* Plug.end()
PlugEnd ==
  /\ Idle
  /\ \E bad \in SUBSET existing_init_files(Plug_new.plug_infos,
                         names_to_load(Plug_new.plug_infos), Plug_new.fs) :
       last' = [op |-> "end", was |-> Manager, raised |-> FALSE,
                loads |-> end(Plug_new.plug_infos, Plug_new.fs, bad)]
  /\ Becomes(Plug_new)
  /\ UNCHANGED <<environ, decls, log>>

\* PlugCommand.invoke(arg, from_tty): gdb runs the command `Plug arg`.
\* call: the method of Plug that invoke called; raised: an exception left
\* invoke
Invoke(arg) ==
  /\ Idle
  /\ LET argv == string_to_argv(arg)
         sub  == IF argv = <<>> THEN <<>> ELSE lower(argv[1])
         rest == [i \in 1..(Len(argv) - 1) |-> PyStr(argv[i + 1])]
     IN \/ /\ sub = <<"u","p","d","a","t","e">>
           /\ \E failing \in SUBSET Plug_update_indices(Plug_new, rest),
                 files \in RepoFiles :
                LET c == Plug_update(Plug_new, rest, failing, files)
                IN /\ Becomes(c.m)
                   /\ last' = [op |-> "invoke", arg |-> arg, was |-> Manager,
                               call |-> "update", args |-> rest,
                               raised |-> c.raised, batch |-> c.batch,
                               trace |-> c.trace]
        \/ /\ sub = <<"l","i","s","t">>
           /\ Becomes(Plug_new)
           /\ LET c == Plug_list(Plug_new, rest)
              IN last' = [op |-> "invoke", arg |-> arg, was |-> Manager,
                          call |-> "list", args |-> rest,
                          raised |-> c.raised, ret |-> c.ret]
        \/ /\ sub = <<"l","o","a","d">>
           /\ Becomes(Plug_new)
           /\ \E bad \in SUBSET Plug_load_files(Plug_new, rest) :
                LET c == Plug_load(Plug_new, rest, bad)
                IN last' = [op |-> "invoke", arg |-> arg, was |-> Manager,
                            call |-> "load", args |-> rest,
                            raised |-> c.raised, result |-> c.result]
        \/ /\ sub \notin {<<"u","p","d","a","t","e">>, <<"l","i","s","t">>,
                          <<"l","o","a","d">>}
           /\ last' = [op |-> "invoke", arg |-> arg, was |-> Manager,
                       call |-> "none", args |-> rest, raised |-> FALSE]
           /\ UNCHANGED <<kargs, init, plug_infos, fs>>
  /\ UNCHANGED <<environ, decls, log>>

---------------------------------------------------------------------------
(* SpecPlug: a gdb session that uses Plug and the Plug command, and keeps  *)
(* a record of the calls                                                   *)

\* the most calls a behaviour of SpecPlug makes
MaxPlugCalls == 3

\* the configurations Plug.begin is called with
PlugKargs ==
  { [NoKargs EXCEPT !.home = PyStr(<<"/","h">>)],
    [NoKargs EXCEPT !.home = PyStr(<<"/","k">>), !.autoload = PyBool(FALSE)] }

\* the declarations SpecPlug registers: plugins named tu and t
PlugDecls ==
  { [repo |-> <<"o","/","t","u">>, name |-> PyNone, autoload |-> PyNone, groups |-> PyNone],
    [repo |-> <<"o","/","t">>, name |-> PyNone, autoload |-> PyNone, groups |-> PyNone] }

\* the arguments of the Plug.update calls of a script
UpdateArgs == { <<>>, <<PyList(<<<<"t","u">>>>)>> }

\* the arguments of the Plug.load calls of a script
LoadArgs == { <<PyStr(<<"t","u">>)>> }

\* what the user types after `Plug`
Commands ==
  { <<>>,
    <<"U","p","d","a","t","e">>,
    <<"u","p","d","a","t","e"," ","t","u">>,
    <<"u","p","d","a","t","e"," ","t","u"," ","t">>,
    <<"l","o","a","d"," ","t","u">>,
    <<"l","i","s","t">> }

InitPlug ==
  /\ environ = NoEnv
  /\ kargs = PyNone
  /\ init = PyNone
  /\ plug_infos = <<>>
  /\ fs = {}
  /\ decls = <<>>
  /\ log = <<>>
  /\ last = [op |-> "init"]

\* the session makes another call
MorePlugCalls == Len(log) < MaxPlugCalls

NextPlug ==
  \/ \E ka \in PlugKargs : MorePlugCalls /\ PlugBegin(ka)
  \/ \E d \in PlugDecls : MorePlugCalls /\ PlugPlug(d)
  \/ \E args \in UpdateArgs : MorePlugCalls /\ PlugUpdate(args)
  \/ \E args \in LoadArgs : MorePlugCalls /\ PlugLoad(args)
  \/ MorePlugCalls /\ PlugList
  \/ MorePlugCalls /\ PlugEnd
  \/ \E arg \in Commands : MorePlugCalls /\ Invoke(arg)
  \/ ReturnLogged

SpecPlug == InitPlug /\ [][NextPlug]_vars

---------------------------------------------------------------------------
(* SpecResolve: one register call, over a wide range of process defaults   *)
(* and declarations                                                        *)

WideEnvirons ==
  { [GDB_PLUG_HOME |-> h, GDB_PLUG_AUTOLOAD |-> a] :
      h \in {PyNone, PyStr(<<"/","e">>)},
      a \in {PyNone, PyStr(<<"n","o","n","e">>)} }

WideKargs ==
  { [home |-> h, autoload |-> a, uri_format |-> u] :
      h \in {PyNone, PyStr(<<"/","h">>), PyStr(<<"/","t","m","p","/","h">>)},
      a \in {PyNone, PyBool(TRUE), PyBool(FALSE), PyStr(<<"f","o","o",",","-","g","e","p">>)},
      u \in {PyNone, PyStr(<<"g",":","{","}">>)} }

WideRepos ==
  { <<"o","w","n","e","r","/","t","o","o","l">>,
    <<"o","/","t",".","g","i","t">>,
    <<"a","/","b",".","g","i","t",".","g","i","t">>,
    <<"a","/","b",".","g","i","t">>,
    <<"a","/","b">>,
    <<"o","/","G","E","P">>,
    <<"x","/">>,
    <<"a","b",":","c","/","d">>,
    <<"1",":","x">>,
    <<"C",":","/","x">>,
    <<"c",":">>,
    <<"%","p">>,
    <<"~","/","p","/">>,
    <<"/","o","p","t","/","p","l","u","g","/">>,
    <<"/">>,
    <<"b","a","d">>,
    <<>> }

WideDecls ==
  { [repo |-> r, name |-> n, autoload |-> a, groups |-> g] :
      r \in WideRepos,
      n \in {PyNone, PyStr(<<>>), PyStr(<<"G","E","P">>)},
      a \in {PyNone, PyBool(FALSE), PyBool(TRUE), PyInt(0), PyInt(1),
             PyStr(<<>>), PyStr(<<"n","o","n","e">>), PyStr(<<"f","o","o">>)},
      g \in {PyNone, PyList(<<<<"f","o","o">>>>)} }

InitResolve ==
  \E env \in WideEnvirons, ka \in WideKargs : Constructed(env, ka, {})

NextResolve == \E d \in WideDecls : decls = <<>> /\ DoPlug(d)

SpecResolve == InitResolve /\ [][NextResolve]_vars

---------------------------------------------------------------------------
(* SpecBool: infer_bool_bygroup on policy strings                          *)

\* the most tokens a policy string of SpecBool has
MaxTokens == 3

Tokens ==
  { <<"a","l","l">>,
    <<"t","r","u","e">>,
    <<"1">>,
    <<"n","o","n","e">>,
    <<"f","a","l","s","e">>,
    <<"0">>,
    <<"f","o","o">>,
    <<"-","f","o","o">>,
    <<"F","O","O">>,
    <<"-","g","r","p">>,
    <<"z","z","z">>,
    <<>>,
    <<"G","E","P">>,
    <<"-","g","e","p">> }

TagLists ==
  { <<<<"f","o","o">>>>, <<<<"f","o","o">>, <<"g","r","p">>>>, <<<<"G","E","P">>>>, <<<<"G","E","P">>, <<"g","r","p">>>> }

TokenLists == UNION { [1..n -> Tokens] : n \in 0..MaxTokens }

\* ",".join(tokens)
RECURSIVE join_commas(_)
join_commas(tokens) ==
  IF tokens = <<>> THEN <<>>
  ELSE IF Len(tokens) = 1 THEN tokens[1]
  ELSE tokens[1] \o <<",">> \o join_commas(Tail(tokens))

InitBool ==
  /\ environ = NoEnv
  /\ kargs = NoKargs
  /\ init = PlugInitConfig(NoEnv, NoKargs)
  /\ plug_infos = <<>>
  /\ fs = os_makedirs({}, PlugInitConfig(NoEnv, NoKargs).home.s)
  /\ decls = <<>>
  /\ log = <<>>
  /\ \E toks \in TokenLists, tags \in TagLists :
       last = [op |-> "input", tokens |-> toks, groups |-> tags]

\* infer_bool_bygroup(",".join(tokens), groups)
DoInferBool ==
  /\ last.op = "input"
  /\ last' = [op |-> "infer_bool_bygroup", tokens |-> last.tokens,
              groups |-> last.groups,
              value |-> PyStr(join_commas(last.tokens)),
              ret |-> infer_bool_bygroup(PyStr(join_commas(last.tokens)),
                                         last.groups)]
  /\ UNCHANGED <<environ, kargs, init, plug_infos, fs, decls, log>>

NextBool == DoInferBool

SpecBool == InitBool /\ [][NextBool]_vars

---------------------------------------------------------------------------
(* The claims *)

\* the record plug stored for the declaration of the last call
StoredRecord == dict_get(plug_infos, infer_config(init, last.decl).config.name)

\* a register call has just stored a record
Registered == last.op = "plug" /\ ~last.raised

\* the tags of the last declaration: its resolved name, then its groups
TagsOfLast ==
  <<StoredRecord.name>> \o
  (IF last.decl.groups = PyNone THEN <<>> ELSE last.decl.groups.l)

\* C1: when register is given an autoload override (any value but None, False
\* and 0 included), the stored autoload is resolved from the override alone;
\* register(repo, autoload=False) under a default of true stores false.
C1_OverrideAlone ==
  (Registered /\ last.decl.autoload # PyNone)
    => StoredRecord.autoload =
         infer_bool_bygroup(last.decl.autoload, TagsOfLast)

\* what the caller wrote for the built-in home, "~" being the user's home
BuiltinHome == PyStr(UserHome \o <<"/",".","c","o","n","f","i","g","/","g","d","b","/","p","l","u","g">>)

\* the first of a, b, c that is given
Precedence(a, b, c) == IF a # PyNone THEN a ELSE IF b # PyNone THEN b ELSE c

Elems(l) == {l[i] : i \in 1..Len(l)}

IsLowerCase(s) == \A i \in 1..Len(s) : ~IsUpper(s[i])

\* token x switches autoload on, resp. off, for the tags
TurnsOn(x, tags) == lower(x) \in Elems(TrueWords) \cup Elems(tags)
TurnsOff(x, tags) ==
  lower(x) \in Elems(FalseWords) \cup {<<"-">> \o g : g \in Elems(tags)}

\* C3: for a string policy and lower-case tags, the resolved autoload is the
\* effect of the last recognized token, false when no token is recognized;
\* unrecognized tokens change nothing.
C3_LastRecognizedToken ==
  (last.op = "infer_bool_bygroup" /\ \A g \in Elems(last.groups) : IsLowerCase(g))
    => LET toks == last.tokens
           rec  == {i \in 1..Len(toks) : TurnsOn(toks[i], last.groups)
                                         \/ TurnsOff(toks[i], last.groups)}
       IN last.ret = IF rec = {} THEN FALSE
                     ELSE LET k == CHOOSE i \in rec : \A j \in rec : j <= i
                          IN TurnsOn(toks[k], last.groups)

\* C3 witness: "all,-foo" with tag foo has resolved to false.
C3_Witness ==
  /\ last.op = "infer_bool_bygroup"
  /\ last.value = PyStr(<<"a","l","l",",","-","f","o","o">>)
  /\ last.groups = <<<<"f","o","o">>>>
  /\ last.ret = FALSE

\* C4: a token that equals a tag up to letter case, upper-case tags such as
\* the plugin name GEP included, sets the running value to true, and "-"
\* followed by such a token sets it to false.
C4_CaseInsensitiveTag ==
  (last.op = "infer_bool_bygroup" /\ last.tokens # <<>>)
    => LET x == last.tokens[Len(last.tokens)]
       IN /\ (\E g \in Elems(last.groups) : lower(x) = lower(g))
               => last.ret = TRUE
          /\ (\E g \in Elems(last.groups) : lower(x) = <<"-">> \o lower(g))
               => last.ret = FALSE

Letters == Elems(UpperCase) \cup Elems(LowerCase)

\* the local-path shape: one letter followed by ":", or a leading %, ~ or /
LocalShape(repo) ==
  \/ Len(repo) >= 2 /\ repo[1] \in Letters /\ repo[2] = ":"
  \/ Len(repo) >= 1 /\ repo[1] \in {"%", "~", "/"}

\* dir is repo with all its trailing "/" removed
StrippedOf(dir, repo) ==
  /\ Len(dir) <= Len(repo)
  /\ SubSeq(repo, 1, Len(dir)) = dir
  /\ \A i \in (Len(dir) + 1)..Len(repo) : repo[i] = "/"
  /\ dir = <<>> \/ dir[Len(dir)] # "/"

\* C10: every stored record has uri = null exactly when its repo has the
\* local-path shape; a local record's directory is repo without its trailing
\* "/", and repo is stored as declared.
C10_LocalIffShape ==
  /\ \A i \in 1..Len(plug_infos) :
       LET r == plug_infos[i].value
       IN /\ (r.uri = PyNone) <=> LocalShape(r.repo)
          /\ r.uri = PyNone => StrippedOf(r.directory, r.repo)
  /\ Registered => StoredRecord.repo = last.decl.repo

\* C10 witness: a local declaration written with a trailing "/" is stored
C10_Witness ==
  /\ Registered
  /\ last.decl.repo = <<"/","o","p","t","/","p","l","u","g","/">>
  /\ StoredRecord.uri = PyNone
  /\ StoredRecord.directory = <<"/","o","p","t","/","p","l","u","g">>

\* the name a declaration resolves to
ResolvedName(d) == infer_config(init, d).config.name

\* the places in the history of the declarations that resolved to name
PlacesOf(name) == {k \in 1..Len(decls) : ResolvedName(decls[k]) = name}

FirstPlace(name) == CHOOSE k \in PlacesOf(name) : \A j \in PlacesOf(name) : k <= j
LastPlace(name) == CHOOSE k \in PlacesOf(name) : \A j \in PlacesOf(name) : j <= k

\* C5: after any sequence of successful register calls the registry holds
\* exactly one record per distinct resolved name, equal to the resolution of
\* the most recent declaration that resolved to that name; re-registering
\* replaces all fields together and leaves the other names' records unchanged.
\* (Stated of the state each register call leaves.)
C5_LastRegistrationWins ==
  last.op = "plug" =>
    LET names == [k \in 1..Len(decls) |-> ResolvedName(decls[k])]
        latest(name) == CHOOSE k \in 1..Len(decls) :
                          /\ names[k] = name
                          /\ \A j \in (k + 1)..Len(decls) : names[j] # name
    IN /\ \A i, j \in 1..Len(plug_infos) :
            plug_infos[i].key = plug_infos[j].key => i = j
       /\ {plug_infos[i].key : i \in 1..Len(plug_infos)}
            = {names[k] : k \in 1..Len(decls)}
       /\ \A i \in 1..Len(plug_infos) :
            plug_infos[i].value =
              infer_config(init, decls[latest(plug_infos[i].key)]).config
       /\ ~last.raised =>
            \A i \in 1..Len(last.before) :
              last.before[i].key # StoredRecord.name =>
                /\ dict_has(plug_infos, last.before[i].key)
                /\ dict_get(plug_infos, last.before[i].key)
                     = last.before[i].value

\* C5 witness: a name was re-registered with another repo, uri, directory and
\* autoload, one record stands under it, and another name is registered.
C5_Witness ==
  /\ Registered
  /\ dict_has(last.before, StoredRecord.name)
  /\ LET old == dict_get(last.before, StoredRecord.name)
     IN /\ old.repo # StoredRecord.repo
        /\ old.uri # StoredRecord.uri
        /\ old.directory # StoredRecord.directory
        /\ old.autoload # StoredRecord.autoload
  /\ Len(plug_infos) = 2

\* the batch the last update call ran on: the names given, or every
\* registered name
BatchOfLast ==
  IF last.names = PyNone \/ last.names.l = <<>>
  THEN [i \in 1..Len(plug_infos) |-> plug_infos[i].key]
  ELSE last.names.l

\* name i of the batch was processed: the loop came to it
Processed(i) == \E k \in 1..Len(last.trace) : last.trace[k].idx = i

\* name i of the batch is a registered local plugin
LocalAt(i) ==
  /\ dict_has(plug_infos, BatchOfLast[i])
  /\ dict_get(plug_infos, BatchOfLast[i]).uri = PyNone

\* name i of the batch is a registered remote plugin
RemoteAt(i) ==
  /\ dict_has(plug_infos, BatchOfLast[i])
  /\ dict_get(plug_infos, BatchOfLast[i]).uri # PyNone

\* the directory of name i of the batch was there when the loop came to it:
\* it was there before the call, or an earlier clone of the call made it
PresentAt(i) ==
  LET dir == dict_get(plug_infos, BatchOfLast[i]).directory
  IN \/ os_path_exists(last.before, dir)
     \/ \E k \in 1..Len(last.trace) :
          /\ last.trace[k].idx < i
          /\ last.trace[k].ev = "clone" /\ last.trace[k].ok
          /\ normpath(last.trace[k].dir) = normpath(dir)

\* the git calls the last update made for name i of the batch
CallsAt(i) ==
  {k \in 1..Len(last.trace) :
     last.trace[k].idx = i /\ last.trace[k].ev \in {"clone", "pull"}}

\* C6: in a sync batch an unknown name or a failed clone/pull does not stop
\* the batch and raises nothing: every name after it is still processed, and
\* each registered remote name that is processed gets exactly one clone call
\* when its directory is absent or one pull when it is present, in batch order.
C6_BatchGoesOn ==
  last.op = "update" =>
    /\ ~last.raised
    /\ \A i \in 1..Len(BatchOfLast) :
         (Processed(i) /\ (~dict_has(plug_infos, BatchOfLast[i])
                           \/ \E k \in CallsAt(i) : ~last.trace[k].ok))
           => \A j \in (i + 1)..Len(BatchOfLast) : Processed(j)
    /\ \A i \in 1..Len(BatchOfLast) :
         (Processed(i) /\ RemoteAt(i)) =>
           /\ Cardinality(CallsAt(i)) = 1
           /\ \A k \in CallsAt(i) :
                /\ last.trace[k].ev = IF PresentAt(i) THEN "pull" ELSE "clone"
                /\ last.trace[k].name = BatchOfLast[i]
    /\ \A k, m \in 1..Len(last.trace) :
         k < m => last.trace[k].idx < last.trace[m].idx

\* C6, what holds of update as it is: the same, for the names that no local
\* plugin precedes in the batch.
C6_UpToFirstLocal ==
  last.op = "update" =>
    /\ ~last.raised
    /\ \A i \in 1..Len(BatchOfLast) :
         (\A m \in 1..(i - 1) : ~LocalAt(m)) => Processed(i)
    /\ \A i \in 1..Len(BatchOfLast) :
         (Processed(i) /\ RemoteAt(i)) =>
           /\ Cardinality(CallsAt(i)) = 1
           /\ \A k \in CallsAt(i) :
                /\ last.trace[k].ev = IF PresentAt(i) THEN "pull" ELSE "clone"
                /\ last.trace[k].name = BatchOfLast[i]
    /\ \A k, m \in 1..Len(last.trace) :
         k < m => last.trace[k].idx < last.trace[m].idx

\* C7: when sync reaches a local plugin the whole call ends there: no clone
\* or pull is made for it or for any name after it in the batch, registered
\* remote plugins included, and the names before it have been processed.
C7_LocalEndsTheCall ==
  last.op = "update" =>
    \A i \in 1..Len(BatchOfLast) :
      (LocalAt(i) /\ \A j \in 1..(i - 1) : ~LocalAt(j)) =>
        /\ \A j \in 1..i : Processed(j)
        /\ \A j \in (i + 1)..Len(BatchOfLast) : ~Processed(j)
        /\ \A j \in i..Len(BatchOfLast) : CallsAt(j) = {}
        /\ \A j \in 1..(i - 1) : RemoteAt(j) => Cardinality(CallsAt(j)) = 1

\* C7 witness: a batch of a remote, a local and a remote plugin, all
\* registered: git ran for the first, and nothing was done for the third.
C7_Witness ==
  /\ last.op = "update"
  /\ Len(BatchOfLast) = 3
  /\ RemoteAt(1) /\ LocalAt(2) /\ RemoteAt(3)
  /\ Cardinality(CallsAt(1)) = 1
  /\ Processed(2)
  /\ ~Processed(3)

\* the candidate initialization files of a plugin, in probing order
Candidates(dir, name) ==
  << dir \o <<"/">> \o name \o <<".","p","y">>,
     dir \o <<"/">> \o name \o <<".","g","d","b">>,
     dir \o <<"/","m","a","i","n",".","p","y">>,
     dir \o <<"/","m","a","i","n",".","g","d","b">>,
     dir \o <<"/",".","g","d","b","i","n","i","t">>,
     dir \o <<"/","g","d","b","i","n","i","t","-">> \o lower(name) \o <<".","p","y">> >>

\* C8: load(name) returns true iff name is registered, its directory exists
\* and an existing candidate sources without raising; candidates are probed
\* in the fixed order, missing ones skipped, a raising one followed by the
\* next, none sourced after the first success; for an unknown name or an
\* absent directory load returns false and sources nothing.
C8_LoadProbesInOrder ==
  last.op = "load" =>
    LET res == last.result
    IN IF ~dict_has(plug_infos, last.name)
          \/ ~os_path_exists(fs, dict_get(plug_infos, last.name).directory)
       THEN res.ret = FALSE /\ res.sourced = <<>>
       ELSE
         LET cand == Candidates(dict_get(plug_infos, last.name).directory,
                                last.name)
             there == {k \in 1..6 : os_path_exists(fs, cand[k])}
             good == {k \in there : cand[k] \notin last.bad}
             upto == IF good = {} THEN 6
                     ELSE CHOOSE k \in good : \A j \in good : k <= j
             tried == {k \in there : k <= upto}
         IN /\ res.ret = (good # {})
            /\ Len(res.sourced) = Cardinality(tried)
            /\ \A n \in 1..Len(res.sourced) :
                 \E k \in tried :
                   /\ Cardinality({j \in tried : j <= k}) = n
                   /\ res.sourced[n] = [path |-> cand[k], ok |-> k \in good]

\* C8 witness: the first existing candidate raised, the next one loaded, and
\* a later existing candidate was not sourced.
C8_Witness ==
  /\ last.op = "load"
  /\ last.result.ret = TRUE
  /\ Len(last.result.sourced) = 2
  /\ ~last.result.sourced[1].ok
  /\ last.result.sourced[2].ok
  /\ Cardinality(existing_init_files(plug_infos, <<last.name>>, fs)) = 3

\* the registered names whose stored autoload is true
AutoloadNames ==
  {plug_infos[i].key : i \in {j \in 1..Len(plug_infos) : plug_infos[j].value.autoload}}

\* loadAll called load once for each autoload name and for no other name,
\* each call being load(name), in the order of the places Place gives
LoadsInOrderOf(Place(_)) ==
  /\ Len(last.loads) = Cardinality(AutoloadNames)
  /\ {last.loads[i].name : i \in 1..Len(last.loads)} = AutoloadNames
  /\ \A i \in 1..Len(last.loads) :
       last.loads[i].result = load(plug_infos, last.loads[i].name, fs, last.bad)
  /\ \A i, j \in 1..Len(last.loads) :
       i < j => Place(last.loads[i].name) < Place(last.loads[j].name)

\* C9 as claimed: loadAll invokes load exactly once for each registered name
\* with autoload = true and for no other, a re-registered name taking the
\* position of its latest registration.
C9_LatestRegistrationOrder == last.op = "end" => LoadsInOrderOf(LastPlace)

\* C9 as amended: loadAll invokes load exactly once for each registered name
\* with autoload = true and for no other, in the order in which the names
\* were first registered (a re-registered name keeps the position of its
\* first registration); a load that returns false does not prevent the loads
\* of later names.
C9_FirstRegistrationOrder == last.op = "end" => LoadsInOrderOf(FirstPlace)

\* C9 witness: the first registered name was registered again after a second
\* name; loadAll loaded it first, that load returned false, and the second
\* name was loaded after it.
C9_Witness ==
  /\ last.op = "end"
  /\ Len(last.loads) = 2
  /\ LastPlace(last.loads[1].name) > LastPlace(last.loads[2].name)
  /\ last.loads[1].result.ret = FALSE

\* s is template with its "{}" replaced by arg
Replaced(s, template, arg) ==
  \E i \in 1..(Len(template) - 1) :
    /\ template[i] = "{" /\ template[i + 1] = "}"
    /\ s = SubSeq(template, 1, i - 1) \o arg
             \o SubSeq(template, i + 2, Len(template))

\* home/name
HomeSlash(home, name) == home \o <<"/">> \o name

OwnerTool == [repo |-> <<"o","w","n","e","r","/","t","o","o","l">>, name |-> PyNone, autoload |-> PyNone, groups |-> PyNone]

\* C11: the record of a remote declaration has directory = join(home, name)
\* for the resolved name (the override if given), uri = repo verbatim when
\* repo contains ":", and uri = uri_format with "{}" replaced by repo when repo
\* contains "/" but no ":"; with no environment overrides, home = /tmp/h and
\* the default template, register("owner/tool") stores name tool, uri
\* https://git::@github.com/owner/tool.git, directory /tmp/h/tool, autoload
\* true.
C11_RemoteRecord ==
  /\ (Registered /\ ~LocalShape(last.decl.repo)) =>
       /\ StoredRecord.directory = HomeSlash(init.home.s, StoredRecord.name)
       /\ contains(last.decl.repo, ":") =>
            StoredRecord.uri = PyStr(last.decl.repo)
       /\ (contains(last.decl.repo, "/") /\ ~contains(last.decl.repo, ":")) =>
            /\ StoredRecord.uri.t = "str"
            /\ Replaced(StoredRecord.uri.s, init.uri_format.s, last.decl.repo)
  /\ (Registered /\ last.decl = OwnerTool /\ environ = NoEnv
        /\ kargs = [NoKargs EXCEPT !.home = PyStr(<<"/","t","m","p","/","h">>)]) =>
       StoredRecord = [ name      |-> <<"t","o","o","l">>,
                        repo      |-> <<"o","w","n","e","r","/","t","o","o","l">>,
                        autoload  |-> TRUE,
                        uri       |-> PyStr(<<"h","t","t","p","s",":","/","/","g","i","t",":",":","@","g","i","t","h","u","b",".","c","o","m","/","o","w","n","e","r","/","t","o","o","l",".","g","i","t">>),
                        directory |-> <<"/","t","m","p","/","h","/","t","o","o","l">> ]

\* C11 witness: the end-to-end example has been registered
C11_Witness ==
  /\ Registered
  /\ last.decl = OwnerTool
  /\ environ = NoEnv
  /\ kargs = [NoKargs EXCEPT !.home = PyStr(<<"/","t","m","p","/","h">>)]
  /\ StoredRecord.directory = <<"/","t","m","p","/","h","/","t","o","o","l">>

\* repo is remote and has neither a ":" nor a "/"
BareName(repo) ==
  ~LocalShape(repo) /\ ~contains(repo, ":") /\ ~contains(repo, "/")

\* C12: register with a remote repo that has neither ":" nor "/" raises and
\* aborts that call only: the registry after the call is the registry before
\* it, no record of such a declaration is ever in the registry, and a call
\* that does not raise stores its record whatever calls failed before it.
C12_InvalidAbortsOneCall ==
  /\ (last.op = "plug" /\ BareName(last.decl.repo)) =>
       (last.raised /\ plug_infos = last.before)
  /\ (last.op = "plug" /\ last.raised) => plug_infos = last.before
  /\ \A i \in 1..Len(plug_infos) : ~BareName(plug_infos[i].value.repo)
  /\ Registered =>
       /\ dict_has(plug_infos, ResolvedName(last.decl))
       /\ StoredRecord.repo = last.decl.repo
       /\ \A i \in 1..Len(last.before) :
            dict_has(plug_infos, last.before[i].key)

\* C12 witness: a register call has failed on a registry of two records
C12_Witness ==
  /\ last.op = "plug"
  /\ last.raised
  /\ last.decl.repo = <<"b","a","d">>
  /\ Len(last.before) = 2
  /\ plug_infos = last.before

\* the list calls on file
ListsOnFile == {a \in 1..Len(log) : log[a].op = "list"}

\* C13: list returns exactly one entry per registered name, whose name, repo,
\* directory and autoload are those of the stored record and whose installed
\* flag tells whether directory exists when list is called: where the
\* directory's existence differs from what an earlier list call reported, the
\* call reports the new state.
C13_ListIsLive ==
  last.op = "list" =>
    /\ \A i \in 1..Len(plug_infos) :
         Cardinality({k \in 1..Len(last.ret) :
                        last.ret[k].name = plug_infos[i].key}) = 1
    /\ \A k \in 1..Len(last.ret) :
         /\ dict_has(plug_infos, last.ret[k].name)
         /\ LET rec == dict_get(plug_infos, last.ret[k].name)
            IN /\ last.ret[k].name = rec.name
               /\ last.ret[k].repo = rec.repo
               /\ last.ret[k].directory = rec.directory
               /\ last.ret[k].autoload = rec.autoload
               /\ last.ret[k].installed = os_path_exists(fs, rec.directory)
    /\ \A a \in ListsOnFile : \A j \in 1..Len(log[a].ret) :
         \A k \in 1..Len(last.ret) :
           ( /\ last.ret[k].name = log[a].ret[j].name
             /\ last.ret[k].directory = log[a].ret[j].directory
             /\ os_path_exists(fs, last.ret[k].directory)
                  # log[a].ret[j].installed )
             => last.ret[k].installed = ~log[a].ret[j].installed

\* C13 witness: a plugin registered once was listed as not installed, a clone
\* succeeded, and list now reports it installed.
C13_Witness ==
  /\ last.op = "list"
  /\ Len(decls) = 1
  /\ Len(log) = 3
  /\ log[1].op = "plug" /\ log[2].op = "list" /\ log[3].op = "update"
  /\ Len(log[2].ret) = 1 /\ Len(last.ret) = 1
  /\ ~log[2].ret[1].installed
  /\ \E k \in 1..Len(log[3].trace) :
       log[3].trace[k].ev = "clone" /\ log[3].trace[k].ok
  /\ last.ret[1].installed
  /\ last.ret[1].directory = log[2].ret[1].directory

\* s is what follows the last "/" of repo (all of repo when it has none)
AfterLastSlash(s, repo) ==
  /\ \A i \in 1..Len(s) : s[i] # "/"
  /\ \/ s = repo
     \/ /\ Len(s) < Len(repo)
        /\ repo[Len(repo) - Len(s)] = "/"
        /\ SubSeq(repo, Len(repo) - Len(s) + 1, Len(repo)) = s

\* n is s without one trailing ".git", or s when it has none
WithoutOneGit(n, s) ==
  IF Len(s) >= 4 /\ SubSeq(s, Len(s) - 3, Len(s)) = <<".","g","i","t">>
  THEN n = SubSeq(s, 1, Len(s) - 4)
  ELSE n = s

\* n is the name inferred from repo
InferredFrom(n, repo) ==
  \E k \in 0..Len(repo) :
    LET s == SubSeq(repo, Len(repo) - k + 1, Len(repo))
    IN AfterLastSlash(s, repo) /\ WithoutOneGit(n, s)

\* the names the examples of C14 resolve to when no name is given
C14_Examples ==
  (Registered /\ last.decl.name = PyNone) =>
    /\ last.decl.repo \in {<<"a","/","b">>, <<"a","/","b",".","g","i","t">>} => StoredRecord.name = <<"b">>
    /\ last.decl.repo = <<"a","/","b",".","g","i","t",".","g","i","t">> => StoredRecord.name = <<"b",".","g","i","t">>

\* C14 as claimed: without a name override the resolved name is the part of
\* repo after its last "/", without one trailing ".git" (a/b.git and a/b give
\* b, a/b.git.git gives b.git); with a name override it is the override.
C14_OverrideIsName ==
  /\ C14_Examples
  /\ Registered =>
       IF last.decl.name # PyNone
       THEN StoredRecord.name = last.decl.name.s
       ELSE InferredFrom(StoredRecord.name, last.decl.repo)

\* C14 amended: the resolved name is the override when a non-empty override
\* is given; with no override, or an empty one, it is the part of repo after
\* its last "/", without one trailing ".git" (a/b.git and a/b give b,
\* a/b.git.git gives b.git).
C14_NonEmptyOverrideIsName ==
  /\ C14_Examples
  /\ Registered =>
       IF last.decl.name # PyNone /\ last.decl.name.s # <<>>
       THEN StoredRecord.name = last.decl.name.s
       ELSE InferredFrom(StoredRecord.name, last.decl.repo)

\* C14 witness: a/b.git.git registered with an empty name is stored as b.git
C14_Witness ==
  /\ Registered
  /\ last.decl.repo = <<"a","/","b",".","g","i","t",".","g","i","t">>
  /\ last.decl.name = PyStr(<<>>)
  /\ StoredRecord.name = <<"b",".","g","i","t">>

\* C15: only register changes the registry: sync, load, loadAll and list
\* leave every record as it is, whatever clone, pull, source and the
\* existence checks do, and no operation changes the process defaults.
C15_OnlyRegisterWrites ==
  [][ /\ init' = init
      /\ last'.op \in {"update", "load", "end", "list"} =>
           plug_infos' = plug_infos
      /\ plug_infos' # plug_infos => last'.op = "plug" ]_vars

\* C15 witness: a sync call has cloned a plugin into a registry of two
\* records, one of them with autoload off
C15_Witness ==
  /\ last.op = "update"
  /\ Len(plug_infos) = 2
  /\ \E i \in 1..2 : ~plug_infos[i].value.autoload
  /\ \E k \in 1..Len(last.trace) :
       last.trace[k].ev = "clone" /\ last.trace[k].ok
  /\ fs # last.before

\* the names the user gave to the last Plug command, after the subcommand
NamesOfLast == [i \in 1..Len(last.args) |-> last.args[i].s]

\* C16: the command `Plug update n1 ... nk` runs sync on exactly the batch
\* n1..nk, each name one whole plugin name, for every k >= 1; `Plug update`
\* runs sync on all registered plugins; `Plug load n` runs load(n); and none
\* of these commands raises.
C16_CommandRunsBatch ==
  (last.op = "invoke" /\ last.call \in {"update", "load"}) =>
    /\ (last.call = "update" /\ Len(last.args) >= 1) =>
         (~last.raised /\ last.batch = NamesOfLast)
    /\ (last.call = "update" /\ last.args = <<>>) =>
         (~last.raised /\ last.batch = dict_keys(plug_infos))
    /\ (last.call = "load" /\ Len(last.args) = 1) =>
         (~last.raised /\ last.result.ret \in BOOLEAN)

\* what the command does: `Plug update` and `Plug load n` as C16 says, `Plug
\* update n` runs sync on the characters of n, and `Plug update n1 ... nk`
\* raises for k >= 2.
C16_CharactersOfOneName ==
  (last.op = "invoke" /\ last.call \in {"update", "load"}) =>
    /\ (last.call = "update" /\ Len(last.args) >= 2) => last.raised
    /\ (last.call = "update" /\ Len(last.args) = 1) =>
         /\ ~last.raised
         /\ Len(last.batch) = Len(NamesOfLast[1])
         /\ \A i \in 1..Len(last.batch) :
              last.batch[i] = <<NamesOfLast[1][i]>>
    /\ (last.call = "update" /\ last.args = <<>>) =>
         (~last.raised /\ last.batch = dict_keys(plug_infos))
    /\ (last.call = "load" /\ Len(last.args) = 1) =>
         (~last.raised /\ last.result.ret \in BOOLEAN)

\* the calls on file that ran an operation of Plug
PlugOpsOnFile ==
  {a \in 1..Len(log) :
     \/ log[a].op \in {"begin", "plug", "update", "load", "list", "end"}
     \/ log[a].op = "invoke" /\ log[a].call # "none"}

\* the last call ran an operation of Plug
PlugOpLast ==
  \/ last.op \in {"begin", "plug", "update", "load", "list", "end"}
  \/ last.op = "invoke" /\ last.call # "none"

\* C17: through Plug all operations act on one registry: Plug.begin applies
\* its configuration only when no operation of Plug (begin, plug, update,
\* load, list, end) has run before; a later begin keeps the manager, its
\* configuration and its records, and so does every other later operation.
C17_OneRegistry ==
  /\ last.op = "begin" =>
       IF PlugOpsOnFile = {}
       THEN /\ kargs = last.ka
            /\ init = PlugInitConfig(environ, last.ka)
            /\ plug_infos = <<>>
       ELSE /\ kargs = last.was.kargs
            /\ init = last.was.init
            /\ plug_infos = last.was.plug_infos
  /\ (PlugOpLast /\ PlugOpsOnFile # {}) =>
       /\ ~NoInstance
       /\ kargs = last.was.kargs
       /\ init = last.was.init
       /\ \A i \in 1..Len(last.was.plug_infos) :
            dict_has(plug_infos, last.was.plug_infos[i].key)
       /\ last.op # "plug" => plug_infos = last.was.plug_infos
  /\ (PlugOpLast /\ PlugOpsOnFile = {} /\ last.op # "begin") =>
       init = PlugInitConfig(environ, NoKargs)

\* C17 witness: begin, a registration, and a begin with another
\* configuration, which left the first configuration and the record
C17_Witness ==
  /\ last.op = "begin"
  /\ Len(log) = 2
  /\ log[1].op = "begin" /\ log[2].op = "plug"
  /\ log[1].ka # last.ka
  /\ kargs = log[1].ka
  /\ init.home = log[1].ka.home
  /\ Len(plug_infos) = 1

\* C18: every record stored by a successful register of a non-empty repo has
\* a non-empty name and a non-empty directory, also for a local declaration
\* written with a trailing "/" (/opt/plug/) and for the root path "/".
C18_NonEmptyNameAndDirectory ==
  (Registered /\ last.decl.repo # <<>>) =>
    /\ StoredRecord.name # <<>>
    /\ StoredRecord.directory # <<>>

\* what holds: the name is not empty when a non-empty name is given or repo
\* does not end with "/", and the directory is not empty unless repo is made
\* of "/" alone.
C18_UnlessTrailingSlash ==
  (Registered /\ last.decl.repo # <<>>) =>
    /\ (Truthy(last.decl.name)
          \/ last.decl.repo[Len(last.decl.repo)] # "/") =>
         StoredRecord.name # <<>>
    /\ (\E i \in 1..Len(last.decl.repo) : last.decl.repo[i] # "/") =>
         StoredRecord.directory # <<>>

=============================================================================
